---- MODULE Spec2Model ----
(***************************************************************************)
(* A model of the sans-I/O Debug Adapter Protocol client of               *)
(* tomlin7/debug-adapter-client: the frame codec of dap/io_handler.py and *)
(* the client state machine and request/response correlation of           *)
(* dap/client.py.                                                         *)
(*                                                                         *)
(* Bytes are modelled as tokens: a header line ("Name: value" followed by *)
(* CRLF), the blank line that ends a header block, and a block of a JSON  *)
(* text.  The JSON text of every message is BodyLen blocks long, and      *)
(* Content-Length counts blocks.  An optional value (None in the source)  *)
(* is the empty sequence, and a present value v is <<v>>.                  *)
(***************************************************************************)
EXTENDS Integers, Sequences, FiniteSets, TLC

VARIABLES
    state,          \* DAPClient._state
    recv_buf,       \* DAPClient._recv_buf, a sequence of tokens
    send_buf,       \* DAPClient._send_buf, a sequence of tokens
    unanswered,     \* DAPClient._unanswered_requests: seq -> Request
    seq_counter,    \* DAPClient._seq_counter
    req_count,      \* history: how many requests _send_request has enqueued
    ret,            \* history: what the latest public call returned or raised
    host,           \* DAPEditor: session_started, event_queue, bytes written
    gen             \* the generator the latest recv returned, while in use

vars ==
    <<state, recv_buf, send_buf, unanswered, seq_counter, req_count, ret,
      host, gen>>

(***************************************************************************)
(* Bounds of the model.                                                    *)
(***************************************************************************)
\* no request is issued once the seq counter has reached MaxSeq (Spec) or
\* MaxOpsSeq (SpecOps)
MaxSeq == 4
MaxOpsSeq == 3
\* the reading thread holds back while MaxQueue events wait in the host's
\* event queue (SpecHost)
MaxQueue == 2

\* the adapter's byte streams hold at most MaxFrames frames (SpecCodec)
MaxFrames == 3


(***************************************************************************)
(* Values.                                                                 *)
(***************************************************************************)
None == <<>>
Some(v) == <<v>>

NOT_INITIALIZED == "NOT_INITIALIZED"
WAITING_FOR_INITIALIZED == "WAITING_FOR_INITIALIZED"
NORMAL == "NORMAL"
WAITING_FOR_SHUTDOWN == "WAITING_FOR_SHUTDOWN"
SHUTDOWN == "SHUTDOWN"
EXITED == "EXITED"

ClientState ==
    {NOT_INITIALIZED, WAITING_FOR_INITIALIZED, NORMAL, WAITING_FOR_SHUTDOWN,
     SHUTDOWN, EXITED}

\* protocol.Request: seq, type, command, arguments (optional)
Request(seq, command, arguments) ==
    [seq |-> seq, type |-> "request", command |-> command,
     arguments |-> arguments]

\* protocol.Event: seq, type, event, body (optional)
Event(seq, event, body) ==
    [seq |-> seq, type |-> "event", event |-> event, body |-> body]

\* protocol.Response: seq, type, request_seq, success, command, message, body
Response(seq, request_seq, success, command, message, body) ==
    [seq |-> seq, type |-> "response", request_seq |-> request_seq,
     success |-> success, command |-> command, message |-> message,
     body |-> body]

(***************************************************************************)
(* The frame codec, dap/io_handler.py.                                     *)
(***************************************************************************)
\* len(json.dumps(content).encode(encoding)), in blocks
BodyLen == 1

HeaderLine(name, value) == [k |-> "line", name |-> name, value |-> value]
Term == [k |-> "term"]
Block(text, i) == [k |-> "body", text |-> text, i |-> i]

\* a JSON text is an object (a dict), an array (a list of dicts) or not JSON
JsonObj(d) == [j |-> "obj", v |-> d]
JsonArr(l) == [j |-> "arr", v |-> [items |-> l]]

\* f"{content_length}" and int(...): decimal numerals
Numerals == <<"0", "1", "2", "3", "4">>
Str(n) == Numerals[n + 1]
IsNumeral(s) == \E i \in 1..Len(Numerals) : Numerals[i] = s
Int_(s) == CHOOSE n \in 0..(Len(Numerals) - 1) : Numerals[n + 1] = s

\* json.dumps(content).encode(encoding)
JsonDumps(content) == [i \in 1..BodyLen |-> Block(JsonObj(content), i)]

MakeHeaders(content_length) ==
    <<HeaderLine("Content-Length", Str(content_length)), Term>>

MakeRequest(command, arguments, seq) ==
    LET base == [type |-> "request", command |-> command, seq |-> seq]
        content == IF arguments = None THEN base
                   ELSE [type |-> "request", command |-> command,
                         arguments |-> arguments[1], seq |-> seq]
        encoded_content == JsonDumps(content)
    IN  MakeHeaders(Len(encoded_content)) \o encoded_content

MakeEvent(event, body, seq) ==
    LET base == [type |-> "event", event |-> event, seq |-> seq]
        content == IF body = None THEN base
                   ELSE [type |-> "event", event |-> event,
                         body |-> body[1], seq |-> seq]
        encoded_content == JsonDumps(content)
    IN  MakeHeaders(Len(encoded_content)) \o encoded_content

\* a variant that keeps the header names as they were written
Lower_CaseKept(name) == name

\* str.lower() of a header name
Lower(name) ==
    CASE name \in {"Content-Length", "content-length", "CONTENT-LENGTH"}
            -> "content-length"
      [] name \in {"Content-Type", "content-type"} -> "content-type"
      [] OTHER -> name

DefaultContentType == "application/vscode-jsonrpc; charset=utf-8"

\* _parse_content_type: the media type, stripped and lower-cased
ContentTypeOf(header) ==
    CASE header \in {DefaultContentType, "application/vscode-jsonrpc"}
            -> "application/vscode-jsonrpc"
      [] OTHER -> header

\* index of the first blank line of the buffer, 0 when there is none
RECURSIVE FirstTerm(_, _)
FirstTerm(buf, i) ==
    IF i > Len(buf) THEN 0
    ELSE IF buf[i] = Term THEN i ELSE FirstTerm(buf, i + 1)

\* the headers dict after the loop over header_lines
RECURSIVE Headers(_, _)
Headers(lines, acc) ==
    IF lines = <<>> THEN acc
    ELSE LET l == Head(lines)
             key == Lower(l.name)
         IN  Headers(Tail(lines),
                     [n \in (DOMAIN acc) \cup {key} |->
                         IF n = key THEN l.value ELSE acc[n]])

\* parse_message: dispatch on "type"; pydantic validates the required fields
MessageTypes == {"request", "response", "event"}
ParseMessage(data) ==
    IF "type" \in DOMAIN data /\ data.type \in MessageTypes
    THEN [ok |-> TRUE, msg |-> data]
    ELSE [ok |-> FALSE]

\* the body blocks are the JSON text of one value, whole and in order
IsJson(raw) ==
    /\ Len(raw) = BodyLen
    /\ \A i \in 1..Len(raw) :
          /\ raw[i].k = "body"
          /\ raw[i].i = i
          /\ raw[i].text = raw[1].text

\* a variant that waits until more bytes than Content-Length have come
ParseOne_WaitsForMore(buf) ==
    LET t == FirstTerm(buf, 1) IN
    IF t = 0 THEN [status |-> "none", rest |-> buf, items |-> <<>>]
    ELSE
    LET header_lines == SubSeq(buf, 1, t - 1)
        raw_all == SubSeq(buf, t + 1, Len(buf))
        headers == Headers(header_lines,
                           [n \in {"content-type"} |-> DefaultContentType])
        Raise(rest) == [status |-> "raise", rest |-> rest, items |-> <<>>]
    IN
    IF \E i \in 1..Len(header_lines) : header_lines[i].k # "line"
    THEN Raise(buf)
    ELSE IF "content-length" \notin DOMAIN headers THEN Raise(buf)
    ELSE IF ContentTypeOf(headers["content-type"])
                # "application/vscode-jsonrpc" THEN Raise(buf)
    ELSE IF ~IsNumeral(headers["content-length"]) THEN Raise(buf)
    ELSE
    LET content_length == Int_(headers["content-length"]) IN
    IF Len(raw_all) <= content_length
    THEN [status |-> "none", rest |-> buf, items |-> <<>>]
    ELSE
    LET raw_content == SubSeq(raw_all, 1, content_length)
        rest == SubSeq(raw_all, content_length + 1, Len(raw_all))
    IN
    IF ~IsJson(raw_content) THEN Raise(rest)
    ELSE
    LET content == raw_content[1].text IN
    IF content.j = "arr"
    THEN [status |-> "ok", rest |-> rest,
          items |-> [i \in 1..Len(content.v.items) |->
                        ParseMessage(content.v.items[i])]]
    ELSE IF ~ParseMessage(content.v).ok THEN Raise(rest)
    ELSE [status |-> "ok", rest |-> rest,
          items |-> <<ParseMessage(content.v)>>]

\* _parse_one_message: status "none" (return None), "raise" (an exception
\* leaves the generator) or "ok" with the parsed items; rest is response_buf
\* as the call leaves it
ParseOne(buf) ==
    LET t == FirstTerm(buf, 1) IN
    IF t = 0 THEN [status |-> "none", rest |-> buf, items |-> <<>>]
    ELSE
    LET header_lines == SubSeq(buf, 1, t - 1)
        raw_all == SubSeq(buf, t + 1, Len(buf))
        headers == Headers(header_lines,
                           [n \in {"content-type"} |-> DefaultContentType])
        Raise(rest) == [status |-> "raise", rest |-> rest, items |-> <<>>]
    IN
    IF \E i \in 1..Len(header_lines) : header_lines[i].k # "line"
    THEN Raise(buf)
    ELSE IF "content-length" \notin DOMAIN headers THEN Raise(buf)
    ELSE IF ContentTypeOf(headers["content-type"])
                # "application/vscode-jsonrpc" THEN Raise(buf)
    ELSE IF ~IsNumeral(headers["content-length"]) THEN Raise(buf)
    ELSE
    LET content_length == Int_(headers["content-length"]) IN
    IF Len(raw_all) < content_length
    THEN [status |-> "none", rest |-> buf, items |-> <<>>]
    ELSE
    LET raw_content == SubSeq(raw_all, 1, content_length)
        rest == SubSeq(raw_all, content_length + 1, Len(raw_all))
    IN
    IF ~IsJson(raw_content) THEN Raise(rest)
    ELSE
    LET content == raw_content[1].text IN
    IF content.j = "arr"
    THEN [status |-> "ok", rest |-> rest,
          items |-> [i \in 1..Len(content.v.items) |->
                        ParseMessage(content.v.items[i])]]
    ELSE IF ~ParseMessage(content.v).ok THEN Raise(rest)
    ELSE [status |-> "ok", rest |-> rest,
          items |-> <<ParseMessage(content.v)>>]

(***************************************************************************)
(* The client, dap/client.py.  A client value c holds the fields that the  *)
(* request and response paths read and write.                              *)
(***************************************************************************)
\* self._seq_counter = 0
InitialSeq == 0

EmptyDict == [x \in {} |-> 0]

Put(table, seq, request) ==
    [s \in (DOMAIN table) \cup {seq} |->
        IF s = seq THEN request ELSE table[s]]

\* a variant that leaves the entry in the table
Pop_Kept(table, seq) == table

Pop(table, seq) == [s \in (DOMAIN table) \ {seq} |-> table[s]]


\* a variant that puts the frame in front of the bytes still to be sent
SendRequest_Prepended(c, command, arguments) ==
    LET seq == c.seq_counter IN
    [c EXCEPT !.seq_counter = seq + 1,
              !.send_buf = MakeRequest(command, arguments, seq) \o @,
              !.unanswered = Put(@, seq, Request(seq, command, arguments)),
              !.req_count = @ + 1]


\* _send_request: stamp the request, frame it, record it as unanswered
SendRequest(c, command, arguments) ==
    LET seq == c.seq_counter IN
    [c EXCEPT !.seq_counter = seq + 1,
              !.send_buf = @ \o MakeRequest(command, arguments, seq),
              !.unanswered = Put(@, seq, Request(seq, command, arguments)),
              !.req_count = @ + 1]



\* a variant that records the event as if it awaited an answer
SendEvent_Recorded(c, event, body) ==
    LET seq == c.seq_counter IN
    [c EXCEPT !.seq_counter = seq + 1,
              !.send_buf = @ \o MakeEvent(event, body, seq),
              !.unanswered = Put(@, seq, Event(seq, event, body))]

\* a variant that stamps the event and leaves the counter as it was
SendEvent_SeqReused(c, event, body) ==
    LET seq == c.seq_counter IN
    [c EXCEPT !.send_buf = @ \o MakeEvent(event, body, seq)]

\* _send_event: stamp the event and frame it
SendEvent(c, event, body) ==
    LET seq == c.seq_counter IN
    [c EXCEPT !.seq_counter = seq + 1,
              !.send_buf = @ \o MakeEvent(event, body, seq)]

\* the logical events recv yields
InitializedEvent(seq) ==
    [cls |-> "InitializedEvent", seq |-> seq, type |-> "event",
     event |-> "initialized", body |-> None]
TerminatedEvent(seq) ==
    [cls |-> "TerminatedEvent", seq |-> seq, type |-> "event",
     event |-> "terminated", body |-> None]
ErrorResponse(response) ==
    [cls |-> "ErrorResponse", seq |-> response.seq, type |-> "response",
     request_seq |-> response.request_seq, success |-> response.success,
     command |-> response.command, message |-> response.message,
     body |-> response.body]
ResponseEvent(seq, event_body) ==
    [cls |-> "Event", seq |-> seq, type |-> "event", event |-> "response",
     body |-> Some(event_body)]
RequestEvent(seq) ==
    [cls |-> "Event", seq |-> seq, type |-> "event", event |-> "request",
     body |-> None]

\* a variant that passes the event on without its body
PassedEvent_BodyDropped(message) ==
    [cls |-> "Event", seq |-> message.seq, type |-> "event",
     event |-> message.event, body |-> None]

PassedEvent(message) ==
    [cls |-> "Event", seq |-> message.seq, type |-> "event",
     event |-> message.event, body |-> message.body]


\* a variant that ends the session on a failed response
OnErrorResponse_Exits(c, response) ==
    [c |-> [c EXCEPT !.state = EXITED], raised |-> FALSE,
     event |-> ErrorResponse(response)]

\* _handle_response, "if not response.success": the response is returned as
\* an ErrorResponse and nothing else is done
OnErrorResponse(c, response) ==
    [c |-> c, raised |-> FALSE, event |-> ErrorResponse(response)]


\* a variant that moves to NORMAL without telling the adapter
OnInitializeResponse_Silent(c, response) ==
    IF c.state # WAITING_FOR_INITIALIZED
    THEN [c |-> c, raised |-> TRUE, event |-> None]
    ELSE [c |-> [c EXCEPT !.state = NORMAL],
          raised |-> FALSE,
          event |-> InitializedEvent(response.seq)]

\* a variant that yields the event and leaves the state as it was
OnInitializeResponse_StateKept(c, response) ==
    IF c.state # WAITING_FOR_INITIALIZED
    THEN [c |-> c, raised |-> TRUE, event |-> None]
    ELSE [c |-> SendEvent(c, "initialized", None),
          raised |-> FALSE,
          event |-> InitializedEvent(response.seq)]

\* _handle_response, the branch of a successful answer to "initialize"
OnInitializeResponse(c, response) ==
    IF c.state # WAITING_FOR_INITIALIZED
    THEN [c |-> c, raised |-> TRUE, event |-> None]
    ELSE [c |-> [SendEvent(c, "initialized", None) EXCEPT !.state = NORMAL],
          raised |-> FALSE,
          event |-> InitializedEvent(response.seq)]

\* a variant that moves to SHUTDOWN and yields the generic response event
OnDisconnectResponse_Generic(c, response) ==
    IF c.state # WAITING_FOR_SHUTDOWN
    THEN [c |-> c, raised |-> TRUE, event |-> None]
    ELSE [c |-> [c EXCEPT !.state = SHUTDOWN],
          raised |-> FALSE,
          event |-> ResponseEvent(response.seq,
              [command |-> "disconnect",
               request_seq |-> response.request_seq,
               success |-> response.success,
               message |-> response.message,
               body |-> response.body])]

\* _handle_response, the branch of a successful answer to "disconnect"
OnDisconnectResponse(c, response) ==
    IF c.state # WAITING_FOR_SHUTDOWN
    THEN [c |-> c, raised |-> TRUE, event |-> None]
    ELSE [c |-> [c EXCEPT !.state = SHUTDOWN],
          raised |-> FALSE,
          event |-> TerminatedEvent(response.seq)]


\* a variant that always reports the command the response names
OnOtherResponse_OwnCommand(c, request, response) ==
    [c |-> c, raised |-> FALSE,
     event |-> ResponseEvent(response.seq,
         [command |-> response.command,
          request_seq |-> response.request_seq,
          success |-> response.success,
          message |-> response.message,
          body |-> response.body])]

\* _handle_response, the generic branch; request is the popped request, if
\* there was one
OnOtherResponse(c, request, response) ==
    [c |-> c, raised |-> FALSE,
     event |-> ResponseEvent(response.seq,
         [command |-> IF request # None THEN request[1].command
                      ELSE response.command,
          request_seq |-> response.request_seq,
          success |-> response.success,
          message |-> response.message,
          body |-> response.body])]


\* a variant that keeps the entry of a request answered with success false
HandleResponse_ErrorKept(c, response) ==
    LET request == IF response.request_seq \in DOMAIN c.unanswered
                   THEN Some(c.unanswered[response.request_seq])
                   ELSE None
        popped == IF request # None
                  THEN [c EXCEPT !.unanswered = Pop(@, response.request_seq)]
                  ELSE c
    IN
    IF ~response.success THEN OnErrorResponse(c, response)
    ELSE IF request # None /\ request[1].command = "initialize"
    THEN OnInitializeResponse(popped, response)
    ELSE IF request # None /\ request[1].command = "disconnect"
    THEN OnDisconnectResponse(popped, response)
    ELSE OnOtherResponse(popped, request, response)


\* a variant that takes the command of a response that answers no pending
\* request from the response itself
HandleResponse_OwnCommand(c, response) ==
    LET request == IF response.request_seq \in DOMAIN c.unanswered
                   THEN Some(c.unanswered[response.request_seq])
                   ELSE None
        popped == IF request # None
                  THEN [c EXCEPT !.unanswered = Pop(@, response.request_seq)]
                  ELSE c
        command == IF request # None THEN request[1].command
                   ELSE response.command
    IN
    IF ~response.success THEN OnErrorResponse(popped, response)
    ELSE IF command = "initialize"
    THEN OnInitializeResponse(popped, response)
    ELSE IF command = "disconnect"
    THEN OnDisconnectResponse(popped, response)
    ELSE OnOtherResponse(popped, request, response)

\* _handle_response: the client after the call, the event it returns, and
\* raised when one of its assertions fails (after the entry was popped)
HandleResponse(c, response) ==
    LET request == IF response.request_seq \in DOMAIN c.unanswered
                   THEN Some(c.unanswered[response.request_seq])
                   ELSE None
        popped == IF request # None
                  THEN [c EXCEPT !.unanswered = Pop(@, response.request_seq)]
                  ELSE c
    IN
    IF ~response.success THEN OnErrorResponse(popped, response)
    ELSE IF request # None /\ request[1].command = "initialize"
    THEN OnInitializeResponse(popped, response)
    ELSE IF request # None /\ request[1].command = "disconnect"
    THEN OnDisconnectResponse(popped, response)
    ELSE OnOtherResponse(popped, request, response)

\* _handle_request: a generic event that keeps only the request's seq
HandleRequest(c, request) ==
    [c |-> c, raised |-> FALSE, event |-> RequestEvent(request.seq)]

\* a variant in which exited and terminated events drive the state
HandleEvent_Lifecycle(c, message) ==
    [c |-> [c EXCEPT !.state =
                CASE message.event = "exited" -> EXITED
                  [] message.event = "terminated" -> SHUTDOWN
                  [] OTHER -> @],
     raised |-> FALSE, event |-> PassedEvent(message)]

\* recv, "elif isinstance(message, Event)": the event is yielded as it is
HandleEvent(c, message) ==
    [c |-> c, raised |-> FALSE, event |-> PassedEvent(message)]

\* the body of the for loop of recv, for one parsed message
HandleMessage(c, message) ==
    CASE message.type = "response" -> HandleResponse(c, message)
      [] message.type = "request" -> HandleRequest(c, message)
      [] OTHER -> HandleEvent(c, message)


\* a variant that yields the latest event first
RECURSIVE HandleItems_Reversed(_, _, _)
HandleItems_Reversed(c, items, events) ==
    IF items = <<>> THEN [c |-> c, raised |-> FALSE, events |-> events]
    ELSE IF ~Head(items).ok
    THEN [c |-> c, raised |-> TRUE, events |-> events]
    ELSE LET h == HandleMessage(c, Head(items).msg) IN
         IF h.raised
         THEN [c |-> h.c, raised |-> TRUE, events |-> events]
         ELSE HandleItems_Reversed(h.c, Tail(items), <<h.event>> \o events)

\* the messages of one frame, handled in order until one raises
RECURSIVE HandleItems(_, _, _)
HandleItems(c, items, events) ==
    IF items = <<>> THEN [c |-> c, raised |-> FALSE, events |-> events]
    ELSE IF ~Head(items).ok
    THEN [c |-> c, raised |-> TRUE, events |-> events]
    ELSE LET h == HandleMessage(c, Head(items).msg) IN
         IF h.raised
         THEN [c |-> h.c, raised |-> TRUE, events |-> events]
         ELSE HandleItems(h.c, Tail(items), Append(events, h.event))


\* a variant that clears the buffer when the frame is not complete yet
RECURSIVE RecvLoop_PartialCleared(_, _, _)
RecvLoop_PartialCleared(c, buf, events) ==
    LET parsed == ParseOne(buf) IN
    IF parsed.status = "none"
    THEN [c |-> c, buf |-> <<>>, events |-> events]
    ELSE IF parsed.status = "raise"
    THEN [c |-> c, buf |-> <<>>, events |-> events]
    ELSE LET h == HandleItems(c, parsed.items, events) IN
         IF h.raised
         THEN [c |-> h.c, buf |-> <<>>, events |-> h.events]
         ELSE RecvLoop_PartialCleared(h.c, parsed.rest, h.events)

\* a variant that leaves the buffer as the parser left it when it raised
RECURSIVE RecvLoop_BufferKept(_, _, _)
RecvLoop_BufferKept(c, buf, events) ==
    LET parsed == ParseOne(buf) IN
    IF parsed.status = "none"
    THEN [c |-> c, buf |-> buf, events |-> events]
    ELSE IF parsed.status = "raise"
    THEN [c |-> c, buf |-> parsed.rest, events |-> events]
    ELSE LET h == HandleItems(c, parsed.items, events) IN
         IF h.raised
         THEN [c |-> h.c, buf |-> parsed.rest, events |-> h.events]
         ELSE RecvLoop_BufferKept(h.c, parsed.rest, h.events)

\* a variant that carries on with the bytes after a frame it could not
\* decode
RECURSIVE RecvLoop_SkipsBadFrame(_, _, _)
RecvLoop_SkipsBadFrame(c, buf, events) ==
    LET parsed == ParseOne(buf) IN
    IF parsed.status = "none"
    THEN [c |-> c, buf |-> buf, events |-> events]
    ELSE IF parsed.status = "raise"
    THEN IF parsed.rest = buf
         THEN [c |-> c, buf |-> <<>>, events |-> events]
         ELSE RecvLoop_SkipsBadFrame(c, parsed.rest, events)
    ELSE LET h == HandleItems(c, parsed.items, events) IN
         IF h.raised
         THEN [c |-> h.c, buf |-> <<>>, events |-> h.events]
         ELSE RecvLoop_SkipsBadFrame(h.c, parsed.rest, h.events)

\* recv, iterated to its end: parse frame after frame from the buffer; any
\* exception clears the buffer and ends the stream
RECURSIVE RecvLoop(_, _, _)
RecvLoop(c, buf, events) ==
    LET parsed == ParseOne(buf) IN
    IF parsed.status = "none"
    THEN [c |-> c, buf |-> buf, events |-> events]
    ELSE IF parsed.status = "raise"
    THEN [c |-> c, buf |-> <<>>, events |-> events]
    ELSE LET h == HandleItems(c, parsed.items, events) IN
         IF h.raised
         THEN [c |-> h.c, buf |-> <<>>, events |-> h.events]
         ELSE RecvLoop(h.c, parsed.rest, h.events)

(***************************************************************************)
(* The environment: what the host calls with and what the adapter sends.   *)
(***************************************************************************)
\* the adapter's framing of a message (tests/test_client.py)
Frame(message) == MakeHeaders(BodyLen) \o JsonDumps(message)

\* the seq the adapter stamps its messages with
InboundSeqs == {7}

\* success, own command, message and body of the adapter's responses
ResponseShapes ==
    { <<TRUE, "evaluate", None, Some("body")>>,
      <<TRUE, "disconnect", None, None>>,
      <<FALSE, "evaluate", Some("cancelled"), None>> }

\* the request_seq of the adapter's responses: an unanswered request, or
\* the first or second seq of the session whether answered or not
InboundResponses ==
    { Response(s, r, sh[1], sh[2], sh[3], sh[4]) :
        s \in InboundSeqs,
        r \in (DOMAIN unanswered) \cup {InitialSeq, InitialSeq + 1},
        sh \in ResponseShapes }

InboundEvents ==
    { Event(s, eb[1], eb[2]) :
        s \in InboundSeqs,
        eb \in {<<"stopped", Some("body")>>, <<"exited", Some("body")>>,
                <<"terminated", None>>} }

InboundRequests ==
    { Request(s, ca[1], ca[2]) :
        s \in InboundSeqs, ca \in {<<"runInTerminal", Some("args")>>} }

InboundMessages == InboundResponses \cup InboundEvents \cup InboundRequests

(***************************************************************************)
(* The public operations.                                                  *)
(***************************************************************************)
Cur ==
    [state |-> state, send_buf |-> send_buf, unanswered |-> unanswered,
     seq_counter |-> seq_counter, req_count |-> req_count]

Apply(c) ==
    /\ state' = c.state
    /\ send_buf' = c.send_buf
    /\ unanswered' = c.unanswered
    /\ seq_counter' = c.seq_counter
    /\ req_count' = c.req_count

\* the record of a call: pre is the client the call started from; val is
\* what a request-issuing operation returned; for recv, events are the
\* events it yielded and buf is the inbound buffer its parser started from;
\* for send, bytes is what it returned
Called(op, pre, raised, val) ==
    [op |-> op, pre |-> pre, raised |-> raised, val |-> val, buf |-> <<>>,
     events |-> <<>>, bytes |-> <<>>]
Returned(op, val) == Called(op, Cur, FALSE, val)
Raised(op) == Called(op, Cur, TRUE, None)

\* the arguments __init__ ships with the initialize request
InitializeArguments ==
    [clientID |-> "null", clientName |-> "null", adapterID |-> "null",
     locale |-> "null", linesStartAt1 |-> TRUE, columnsStartAt1 |-> TRUE,
     pathFormat |-> "path", supportsVariableType |-> FALSE,
     supportsVariablePaging |-> FALSE,
     supportsRunInTerminalRequest |-> FALSE,
     supportsMemoryReferences |-> FALSE,
     supportsProgressReporting |-> FALSE,
     supportsInvalidatedEvent |-> FALSE, supportsMemoryEvent |-> FALSE]

\* DAPClient.__init__
Blank ==
    [state |-> NOT_INITIALIZED, send_buf |-> <<>>, unanswered |-> EmptyDict,
     seq_counter |-> InitialSeq, req_count |-> 0]

\* a variant that frames the initialize request without recording it
Constructed_Unrecorded ==
    [Blank EXCEPT !.state = WAITING_FOR_INITIALIZED,
                  !.seq_counter = @ + 1,
                  !.send_buf = MakeRequest("initialize",
                                           Some(InitializeArguments),
                                           Blank.seq_counter),
                  !.req_count = 1]

Constructed ==
    [SendRequest(Blank, "initialize", Some(InitializeArguments))
        EXCEPT !.state = WAITING_FOR_INITIALIZED]

\* DAPEditor as start_debugging finds it: session_started, the event queue
\* between the reading thread and the main thread, and what was written to
\* the adapter so far
Started == [session_started |-> FALSE, event_queue |-> <<>>, written |-> <<>>]

Init ==
    /\ state = Constructed.state
    /\ send_buf = Constructed.send_buf
    /\ unanswered = Constructed.unanswered
    /\ seq_counter = Constructed.seq_counter
    /\ req_count = Constructed.req_count
    /\ recv_buf = <<>>
    /\ ret = Called("__init__", Blank, FALSE, None)
    /\ host = Started
    /\ gen = None


\* a variant that also lets a client through that waits for the disconnect
\* response
StateAsserted_ShutdownToo(c) == c.state \in {NORMAL, WAITING_FOR_SHUTDOWN}

\* a variant that also lets a client through that still waits for the
\* initialize response
StateAsserted_Lax(c) == c.state \in {NORMAL, WAITING_FOR_INITIALIZED}

\* the assertion every request-issuing operation but cancel starts with
StateAsserted(c) == c.state = NORMAL

\* a variant that asserts the state after the request was enqueued
Issue_AssertLate(op, command, arguments, limit) ==
    \/ /\ StateAsserted(Cur)
       /\ seq_counter < limit
       /\ Apply(SendRequest(Cur, command, arguments))
       /\ UNCHANGED <<host, gen>>
       /\ ret' = Returned(op, Some(seq_counter))
       /\ UNCHANGED recv_buf
    \/ /\ ~StateAsserted(Cur)
       /\ seq_counter < limit
       /\ Apply(SendRequest(Cur, command, arguments))
       /\ UNCHANGED <<host, gen>>
       /\ ret' = Raised(op)
       /\ UNCHANGED recv_buf


\* a variant that returns the value of the counter after the request
Issue_ReturnsNext(op, command, arguments, limit) ==
    \/ /\ StateAsserted(Cur)
       /\ seq_counter < limit
       /\ Apply(SendRequest(Cur, command, arguments))
       /\ UNCHANGED <<host, gen>>
       /\ ret' = Returned(op, Some(seq_counter + 1))
       /\ UNCHANGED recv_buf
    \/ /\ ~StateAsserted(Cur)
       /\ UNCHANGED <<host, gen>>
       /\ ret' = Raised(op)
       /\ UNCHANGED <<state, recv_buf, send_buf, unanswered, seq_counter,
                      req_count>>

\* a request-issuing operation that asserts the state is NORMAL and returns
\* the seq of the request it enqueued
Issue(op, command, arguments, limit) ==
    \/ /\ StateAsserted(Cur)
       /\ seq_counter < limit
       /\ Apply(SendRequest(Cur, command, arguments))
       /\ UNCHANGED <<host, gen>>
       /\ ret' = Returned(op, Some(seq_counter))
       /\ UNCHANGED recv_buf
    \/ /\ ~StateAsserted(Cur)
       /\ UNCHANGED <<host, gen>>
       /\ ret' = Raised(op)
       /\ UNCHANGED <<state, recv_buf, send_buf, unanswered, seq_counter,
                      req_count>>


\* a variant that enqueues the disconnect request and leaves the state as
\* it was
disconnect_StateKept(limit) ==
    \/ /\ StateAsserted(Cur)
       /\ seq_counter < limit
       /\ Apply(SendRequest(Cur, "disconnect", None))
       /\ UNCHANGED <<host, gen>>
       /\ ret' = Returned("disconnect", None)
       /\ UNCHANGED recv_buf
    \/ /\ ~StateAsserted(Cur)
       /\ UNCHANGED <<host, gen>>
       /\ ret' = Raised("disconnect")
       /\ UNCHANGED <<state, recv_buf, send_buf, unanswered, seq_counter,
                      req_count>>

\* disconnect returns nothing
disconnect(limit) ==
    \/ /\ StateAsserted(Cur)
       /\ seq_counter < limit
       /\ Apply([SendRequest(Cur, "disconnect", None)
                    EXCEPT !.state = WAITING_FOR_SHUTDOWN])
       /\ UNCHANGED <<host, gen>>
       /\ ret' = Returned("disconnect", None)
       /\ UNCHANGED recv_buf
    \/ /\ ~StateAsserted(Cur)
       /\ UNCHANGED <<host, gen>>
       /\ ret' = Raised("disconnect")
       /\ UNCHANGED <<state, recv_buf, send_buf, unanswered, seq_counter,
                      req_count>>

launch(limit) ==
    Issue("launch", "launch", Some([program |-> "main.py"]), limit)

attach(limit) == Issue("attach", "attach", Some(EmptyDict), limit)

set_breakpoints(limit) ==
    Issue("set_breakpoints", "setBreakpoints",
          Some([source |-> "source", breakpoints |-> "breakpoints"]), limit)

set_function_breakpoints(limit) ==
    Issue("set_function_breakpoints", "setFunctionBreakpoints",
          Some([breakpoints |-> "breakpoints"]), limit)

set_exception_breakpoints(limit) ==
    Issue("set_exception_breakpoints", "setExceptionBreakpoints",
          Some([filters |-> "filters"]), limit)

configuration_done(limit) ==
    Issue("configuration_done", "configurationDone", None, limit)

continue_execution(limit) ==
    Issue("continue_execution", "continue", Some([threadId |-> 1]), limit)

next(limit) == Issue("next", "next", Some([threadId |-> 1]), limit)

step_in(limit) == Issue("step_in", "stepIn", Some([threadId |-> 1]), limit)

step_out(limit) ==
    Issue("step_out", "stepOut", Some([threadId |-> 1]), limit)

pause(limit) == Issue("pause", "pause", Some([threadId |-> 1]), limit)

stack_trace(limit) ==
    Issue("stack_trace", "stackTrace", Some([threadId |-> 1]), limit)

scopes(limit) == Issue("scopes", "scopes", Some([frameId |-> 1]), limit)

variables(limit) ==
    Issue("variables", "variables", Some([variablesReference |-> 1]), limit)

set_variable(limit) ==
    Issue("set_variable", "setVariable",
          Some([variablesReference |-> 1, name |-> "name",
                value |-> "value"]), limit)

source(limit) ==
    Issue("source", "source", Some([sourceReference |-> 1]), limit)

threads(limit) == Issue("threads", "threads", None, limit)

evaluate(limit) ==
    Issue("evaluate", "evaluate", Some([expression |-> "expression"]), limit)

\* the requestId the host passes to cancel: the seq of the latest
\* unanswered request, or none when every request is answered
CancelTargets ==
    IF DOMAIN unanswered = {} THEN {None}
    ELSE {Some(CHOOSE s \in DOMAIN unanswered :
                  \A q \in DOMAIN unanswered : q <= s)}


\* a variant that drops the request it is asked to cancel from the table
cancel_Removes(limit) ==
    \E requestId \in CancelTargets :
       /\ seq_counter < limit
       /\ Apply([SendRequest(Cur, "cancel",
                    Some(IF requestId = None THEN EmptyDict
                         ELSE [requestId |-> requestId[1]]))
                 EXCEPT !.unanswered =
                    IF requestId = None THEN @ ELSE Pop(@, requestId[1])])
       /\ UNCHANGED <<host, gen>>
       /\ ret' = Returned("cancel", Some(seq_counter))
       /\ UNCHANGED recv_buf

\* cancel asserts nothing about the state
cancel(limit) ==
    \E requestId \in CancelTargets :
       /\ seq_counter < limit
       /\ Apply(SendRequest(Cur, "cancel",
                Some(IF requestId = None THEN EmptyDict
                     ELSE [requestId |-> requestId[1]])))
       /\ UNCHANGED <<host, gen>>
       /\ ret' = Returned("cancel", Some(seq_counter))
       /\ UNCHANGED recv_buf


\* a variant that hands the outbound buffer over without clearing it
send_Kept ==
    /\ UNCHANGED <<host, gen>>
    /\ ret' = [Returned("send", None) EXCEPT !.bytes = send_buf]
    /\ UNCHANGED <<state, recv_buf, send_buf, unanswered, seq_counter,
                   req_count>>

\* send: hand over the outbound buffer and clear it
send ==
    /\ UNCHANGED <<host, gen>>
    /\ ret' = [Returned("send", None) EXCEPT !.bytes = send_buf]
    /\ send_buf' = <<>>
    /\ UNCHANGED <<state, recv_buf, unanswered, seq_counter, req_count>>


\* a variant that parses the new bytes without the bytes it kept
recv_Unbuffered(data) ==
    LET r == RecvLoop(Cur, data, <<>>) IN
    /\ Apply(r.c)
    /\ recv_buf' = r.buf
    /\ UNCHANGED <<host, gen>>
    /\ ret' = [Returned("recv", None) EXCEPT !.buf = recv_buf \o data,
                                             !.events = r.events]

\* recv(data), iterated to its end by the host
recv(data) ==
    LET r == RecvLoop(Cur, recv_buf \o data, <<>>) IN
    /\ Apply(r.c)
    /\ recv_buf' = r.buf
    /\ UNCHANGED <<host, gen>>
    /\ ret' = [Returned("recv", None) EXCEPT !.buf = recv_buf \o data,
                                             !.events = r.events]

\* the host feeds the next frame of the adapter's stream
Feed == \E message \in InboundMessages : recv(Frame(message))

\* the host feeds one whole frame, a response to an unanswered request
FeedResponse ==
    \E r \in DOMAIN unanswered, ok \in BOOLEAN :
       \E s \in InboundSeqs :
          recv(Frame(Response(s, r, ok, unanswered[r].command, None, None)))

(***************************************************************************)
(* Spec: the protocol between a host and an adapter, with the operations   *)
(* launch, cancel and disconnect.                                          *)
(***************************************************************************)
Next ==
    \/ launch(MaxSeq) \/ cancel(MaxSeq) \/ disconnect(MaxSeq)
    \/ send \/ Feed

Spec == Init /\ [][Next]_vars

(***************************************************************************)
(* SpecOps: every request-issuing operation, with an adapter that only     *)
(* answers requests.                                                       *)
(***************************************************************************)
NextOps ==
    \/ launch(MaxOpsSeq) \/ attach(MaxOpsSeq) \/ set_breakpoints(MaxOpsSeq)
    \/ set_function_breakpoints(MaxOpsSeq)
    \/ set_exception_breakpoints(MaxOpsSeq)
    \/ configuration_done(MaxOpsSeq) \/ continue_execution(MaxOpsSeq)
    \/ next(MaxOpsSeq) \/ step_in(MaxOpsSeq) \/ step_out(MaxOpsSeq)
    \/ pause(MaxOpsSeq) \/ stack_trace(MaxOpsSeq) \/ scopes(MaxOpsSeq)
    \/ variables(MaxOpsSeq) \/ set_variable(MaxOpsSeq) \/ source(MaxOpsSeq)
    \/ threads(MaxOpsSeq) \/ evaluate(MaxOpsSeq) \/ cancel(MaxOpsSeq)
    \/ disconnect(MaxOpsSeq) \/ send \/ FeedResponse

SpecOps == Init /\ [][NextOps]_vars

(***************************************************************************)
(* SpecCodec: the host feeds the adapter's byte stream to recv, whole or   *)
(* cut in two at any point.  A stream is a run of frames, at most one of   *)
(* them undecodable.                                                       *)
(***************************************************************************)
\* the messages of the adapter's well-formed frames, by kind of frame: an
\* event, the answer to the initialize request, a batch of two events
Carried(kind) ==
    CASE kind = "event" -> <<Event(7, "stopped", Some("body"))>>
      [] kind = "response" ->
            <<Response(8, InitialSeq, TRUE, "initialize", None, None)>>
      [] kind = "batch" ->
            <<Event(5, "output", Some("body")), Event(6, "exited", None)>>

WellFormed == {"event", "response", "batch"}

\* the undecodable frames: no Content-Length header, a header line without
\* ": ", a length that is no integer, a body that is not JSON, a type that
\* is no message type, and a frame of length 0
Undecodable ==
    {"no_length", "bad_header", "bad_length", "bad_json", "bad_type",
     "zero_length"}

\* a header line with a colon and no space after it
MalformedLine == [k |-> "text", text |-> "Content-Length:1"]

\* the bytes of a frame of each kind (tests/test_io.py, _wrap)
Wrap(kind) ==
    LET stopped == Carried("event")[1] IN
    CASE kind = "batch" ->
            MakeHeaders(BodyLen)
                \o [i \in 1..BodyLen |-> Block(JsonArr(Carried(kind)), i)]
      [] kind \in {"event", "response"} -> Frame(Carried(kind)[1])
      [] kind = "no_length" ->
            <<HeaderLine("Content-Type", DefaultContentType), Term>>
                \o JsonDumps(stopped)
      [] kind = "bad_header" -> <<MalformedLine, Term>> \o JsonDumps(stopped)
      [] kind = "bad_length" ->
            <<HeaderLine("Content-Length", "1x"), Term>> \o JsonDumps(stopped)
      [] kind = "bad_json" ->
            MakeHeaders(BodyLen)
                \o [i \in 1..BodyLen |-> Block(JsonObj(stopped), i + 1)]
      [] kind = "bad_type" -> Frame([type |-> "bogus", seq |-> 7])
      [] kind = "zero_length" -> MakeHeaders(0)

\* the streams, as the kinds of their frames
Streams ==
    { kinds \in UNION { [1..n -> WellFormed \cup Undecodable] :
                           n \in 1..MaxFrames } :
        Cardinality({i \in DOMAIN kinds : kinds[i] \in Undecodable}) <= 1 }

RECURSIVE Wire(_)
Wire(kinds) ==
    IF kinds = <<>> THEN <<>> ELSE Wrap(Head(kinds)) \o Wire(Tail(kinds))

\* the streams with their bytes
Wires == { [kinds |-> kinds, bytes |-> Wire(kinds)] : kinds \in Streams }

\* the non-empty proper prefixes of the streams
Firsts ==
    UNION { { SubSeq(w.bytes, 1, i) : i \in 1..(Len(w.bytes) - 1) } :
              w \in Wires }

\* what is left of the streams that start with the bytes a
Seconds(a) ==
    { SubSeq(w.bytes, Len(a) + 1, Len(w.bytes)) :
        w \in { x \in Wires : /\ Len(a) < Len(x.bytes)
                               /\ SubSeq(x.bytes, 1, Len(a)) = a } }

\* a stream starts on a client that was just constructed or has just
\* received the answer to its initialize request and nothing else
StreamStarts ==
    /\ recv_buf = <<>>
    /\ \/ ret.op = "__init__"
       \/ ret.op = "recv" /\ ret.buf = Wrap("response")

\* the host feeds a whole stream
FeedWhole ==
    /\ StreamStarts
    /\ \E w \in Wires : recv(w.bytes)

\* the host feeds the first part of a stream
FeedFirst ==
    /\ StreamStarts
    /\ \E a \in Firsts : recv(a)

\* the host feeds the rest of the stream it fed the first part of
FeedSecond ==
    /\ ret.op = "recv"
    /\ \E b \in Seconds(ret.buf) : recv(b)

NextCodec == FeedWhole \/ FeedFirst \/ FeedSecond

SpecCodec == Init /\ [][NextCodec]_vars

(***************************************************************************)
(* SpecLife: one session from the initialize request to the disconnect     *)
(* response.  The client has no timer and no thread of its own; the host   *)
(* runs a thread that reads what the adapter wrote and feeds each chunk to *)
(* recv, iterated to its end (sandbox.py, read_dap_responses).  The        *)
(* fairness stated is that of this loop and of an adapter that answers:    *)
(* the answer to an unanswered request is written and fed in the end,      *)
(* alone in its chunk or behind other output of the adapter.               *)
(***************************************************************************)
\* the host feeds the adapter's answer to the unanswered request r
Answer(r) ==
    /\ r \in DOMAIN unanswered
    /\ \E ok \in BOOLEAN, s \in InboundSeqs :
          recv(Frame(Response(s, r, ok, unanswered[r].command, None, None)))

\* the host feeds a chunk in which the answer to the unanswered request r
\* follows output of the adapter that is no frame
Garble(r) ==
    /\ r \in DOMAIN unanswered
    /\ \E ok \in BOOLEAN, s \in InboundSeqs :
          recv(Wrap("bad_header")
                 \o Frame(Response(s, r, ok, unanswered[r].command,
                                   None, None)))

Answered == \E r \in DOMAIN unanswered : Answer(r)

Garbled == \E r \in DOMAIN unanswered : Garble(r)

\* the host feeds an answer to initialize or disconnect under a seq of the
\* session that is not, or no longer, the seq of an unanswered request
Repeated ==
    \E r \in (0..(seq_counter - 1)) \ DOMAIN unanswered :
       \E ok \in BOOLEAN, s \in InboundSeqs :
          \E command \in {"initialize", "disconnect"} :
             recv(Frame(Response(s, r, ok, command, None, None)))

NextLife ==
    \/ launch(MaxOpsSeq) \/ disconnect(MaxOpsSeq)
    \/ send \/ Answered \/ Garbled \/ Repeated

\* the step is a recv of bytes that hold a response to the unanswered
\* request r: a step of Answer(r) or of Garble(r)
FedAnswerTo(r) ==
    /\ r \in DOMAIN unanswered
    /\ ret'.op = "recv"
    /\ \E i \in 1..Len(ret'.buf) :
          /\ ret'.buf[i].k = "body"
          /\ ret'.buf[i].text.j = "obj"
          /\ ret'.buf[i].text.v.type = "response"
          /\ ret'.buf[i].text.v.request_seq = r

\* the adapter answers every request and the reading thread feeds the
\* answer: WF_vars(Answer(r) \/ Garble(r)), an action enabled exactly while
\* r is unanswered, written out with that enabling condition
AdapterAnswers ==
    \A r \in 0..MaxOpsSeq :
        \/ []<>(r \notin DOMAIN unanswered)
        \/ []<><<FedAnswerTo(r)>>_vars

\* the host writes what the client enqueued after every request
\* (sandbox.py, send_dap_request)
HostFlushes == WF_vars(send)

SpecLife == Init /\ [][NextLife]_vars /\ HostFlushes /\ AdapterAnswers

(***************************************************************************)
(* SpecHost: the start of a debug session in the sandbox editor.  The      *)
(* reading thread feeds recv and queues the events; the main thread takes  *)
(* them off the queue one at a time.  The adapter sends what belongs to    *)
(* the start of a session: the answer to initialize, its own initialized   *)
(* event, output, and the answers to the requests the host wrote.          *)
(***************************************************************************)
\* the arguments handle_dap_event launches the program with
LaunchParams ==
    [program |-> "main.py", console |-> "internalConsole",
     stopOnEntry |-> TRUE]

\* send_dap_request: the call of the client, then send() and
\* io_handler.write; an exception of the call is logged and nothing is
\* written
send_dap_request(c, h, command, arguments) ==
    IF ~StateAsserted(c) THEN [c |-> c, h |-> h]
    ELSE LET issued == SendRequest(c, command, arguments) IN
         [c |-> [issued EXCEPT !.send_buf = <<>>],
          h |-> [h EXCEPT !.written = @ \o issued.send_buf]]

\* start_debugging, after the client was constructed: the initialize
\* request is written to the adapter
start_debugging ==
    /\ ret.op = "__init__"
    /\ host' = [host EXCEPT !.session_started = FALSE,
                            !.written = @ \o send_buf]
    /\ ret' = [Returned("send", None) EXCEPT !.bytes = send_buf]
    /\ send_buf' = <<>>
    /\ UNCHANGED <<state, recv_buf, unanswered, seq_counter, req_count, gen>>

\* what the adapter writes in one piece
HostChunks ==
    LET answers == { Frame(Response(s, InitialSeq, ok, "initialize", None,
                                    None)) :
                       s \in InboundSeqs, ok \in BOOLEAN }
        initialized == { Frame(Event(s, "initialized", None)) :
                           s \in InboundSeqs }
        output == { Frame(Event(s, "output", Some("body"))) :
                      s \in InboundSeqs }
        others == { Frame(Response(s, r, TRUE, unanswered[r].command, None,
                                   None)) :
                      s \in InboundSeqs,
                      r \in (DOMAIN unanswered) \ {InitialSeq} }
    IN  answers \cup initialized \cup output \cup others
            \cup { a \o e : a \in answers, e \in initialized }

\* read_dap_responses: one chunk is read, fed to recv, and the events recv
\* yields are queued
read_dap_responses ==
    /\ ret.op # "__init__"
    /\ Len(host.event_queue) < MaxQueue
    /\ \E data \in HostChunks :
          LET r == RecvLoop(Cur, recv_buf \o data, <<>>) IN
          /\ Apply(r.c)
          /\ recv_buf' = r.buf
          /\ host' = [host EXCEPT !.event_queue = @ \o r.events]
          /\ ret' = [Returned("recv", None) EXCEPT !.buf = recv_buf \o data,
                                                   !.events = r.events]
          /\ UNCHANGED gen

\* getattr(event, "event", None)
EventKind(event) ==
    IF "event" \in DOMAIN event THEN Some(event.event) ELSE None

\* a variant that reacts to every initialized event
handle_dap_event_EveryTime ==
    /\ host.event_queue # <<>>
    /\ LET event == Head(host.event_queue)
           rest == [host EXCEPT !.event_queue = Tail(@)]
       IN
       /\ IF EventKind(event) = Some("initialized")
          THEN LET first == send_dap_request(Cur,
                                [rest EXCEPT !.session_started = TRUE],
                                "launch", Some(LaunchParams))
                   second == send_dap_request(first.c, first.h,
                                 "configurationDone", None)
               IN  Apply(second.c) /\ host' = second.h
          ELSE Apply(Cur) /\ host' = rest
       /\ ret' = [Called("handle_dap_event", Cur, FALSE, None)
                     EXCEPT !.events = <<event>>]
    /\ UNCHANGED <<recv_buf, gen>>

\* process_dap_events takes the next event off the queue and calls
\* handle_dap_event: the first initialized event starts the session with
\* launch and configurationDone, a later one is ignored; output and the
\* answers to launch and configurationDone make the host send nothing
handle_dap_event ==
    /\ host.event_queue # <<>>
    /\ LET event == Head(host.event_queue)
           rest == [host EXCEPT !.event_queue = Tail(@)]
       IN
       /\ IF EventKind(event) = Some("initialized") /\ ~host.session_started
          THEN LET first == send_dap_request(Cur,
                                [rest EXCEPT !.session_started = TRUE],
                                "launch", Some(LaunchParams))
                   second == send_dap_request(first.c, first.h,
                                 "configurationDone", None)
               IN  Apply(second.c) /\ host' = second.h
          ELSE Apply(Cur) /\ host' = rest
       /\ ret' = [Called("handle_dap_event", Cur, FALSE, None)
                     EXCEPT !.events = <<event>>]
    /\ UNCHANGED <<recv_buf, gen>>

NextHost == start_debugging \/ read_dap_responses \/ handle_dap_event

SpecHost == Init /\ [][NextHost]_vars

(***************************************************************************)
(* SpecHeaders: frames whose header section differs from the one the       *)
(* client writes: the name Content-Length in another letter case, and      *)
(* other headers in front of it or behind it (tests/test_io.py,            *)
(* test_extra_headers).                                                    *)
(***************************************************************************)
HeaderNames == {"Content-Length", "content-length", "CONTENT-LENGTH"}

\* the header lines that may accompany Content-Length
ExtraHeaders ==
    { <<>>,
      <<HeaderLine("Content-Type", DefaultContentType)>>,
      <<HeaderLine("content-type", "application/vscode-jsonrpc")>>,
      <<HeaderLine("X-Request-Id", "42")>> }

\* the bytes of a frame with these headers around the length header
Headed(name, before, after, message) ==
    before \o <<HeaderLine(name, Str(BodyLen))>> \o after \o <<Term>>
        \o JsonDumps(message)

HeadedMessages ==
    { Carried("event")[1], Carried("response")[1], Carried("batch")[2] }

\* the host feeds one frame
FeedHeaded ==
    \E name \in HeaderNames, before \in ExtraHeaders, after \in ExtraHeaders :
       \E message \in HeadedMessages :
          recv(Headed(name, before, after, message))

NextHeaders == FeedHeaded

SpecHeaders == Init /\ [][NextHeaders]_vars

(***************************************************************************)
(* SpecLazy: recv as the generator it is.  The call returns a generator    *)
(* and runs none of the body; each next() of the host runs the body up to  *)
(* the next yield or to its end.  A generator the host no longer iterates  *)
(* is left where it stands; the host holds one generator at a time.        *)
(***************************************************************************)
\* what the adapter writes in one piece: one frame or two, at most one of
\* them undecodable
LazyStreams ==
    { kinds \in UNION { [1..n -> {"event", "response", "batch", "bad_json"}] :
                           n \in 1..2 } :
        Cardinality({i \in DOMAIN kinds : kinds[i] \in Undecodable}) <= 1 }

LazyChunks == { Wire(kinds) : kinds \in LazyStreams }

\* the generator object: whether its body has begun, the bytes it was called
\* with, and what is left of the messages of the frame it is iterating
Generator(started, data, items) ==
    [started |-> started, data |-> data, items |-> items]

\* the body of recv from where it stands to its next yield or its end, end
\* included when an exception clears the buffer
RECURSIVE Resume(_, _, _)
Resume(c, buf, items) ==
    IF items # <<>>
    THEN IF ~Head(items).ok
         THEN [c |-> c, buf |-> <<>>, items |-> <<>>, event |-> None,
               done |-> TRUE]
         ELSE LET h == HandleMessage(c, Head(items).msg) IN
              IF h.raised
              THEN [c |-> h.c, buf |-> <<>>, items |-> <<>>, event |-> None,
                    done |-> TRUE]
              ELSE [c |-> h.c, buf |-> buf, items |-> Tail(items),
                    event |-> Some(h.event), done |-> FALSE]
    ELSE LET parsed == ParseOne(buf) IN
         IF parsed.status = "none"
         THEN [c |-> c, buf |-> buf, items |-> <<>>, event |-> None,
               done |-> TRUE]
         ELSE IF parsed.status = "raise"
         THEN [c |-> c, buf |-> <<>>, items |-> <<>>, event |-> None,
               done |-> TRUE]
         ELSE Resume(c, parsed.rest, parsed.items)

\* a variant that buffers the bytes when it is called
recv_call_Eager ==
    /\ Len(recv_buf) <= Len(Wrap("event"))
    /\ \E data \in LazyChunks :
          /\ gen' = Some(Generator(FALSE, data, <<>>))
          /\ recv_buf' = recv_buf \o data
          /\ ret' = [Returned("recv", None) EXCEPT !.buf = recv_buf \o data]
    /\ UNCHANGED <<state, send_buf, unanswered, seq_counter, req_count,
                   host>>

\* recv(data), the call alone: the generator is made and nothing else
\* happens; the generator the host held before is dropped.  The host calls
\* while at most one frame waits in the inbound buffer.
recv_call ==
    /\ Len(recv_buf) <= Len(Wrap("event"))
    /\ \E data \in LazyChunks :
          /\ gen' = Some(Generator(FALSE, data, <<>>))
          /\ ret' = [Returned("recv", None) EXCEPT !.buf = recv_buf \o data]
    /\ UNCHANGED <<state, recv_buf, send_buf, unanswered, seq_counter,
                   req_count, host>>

\* next() on the generator: its first run appends the bytes it was called
\* with to the inbound buffer
next_event ==
    /\ gen # None
    /\ LET g == gen[1]
           buf == IF g.started THEN recv_buf ELSE recv_buf \o g.data
           r == Resume(Cur, buf, g.items)
       IN
       /\ Apply(r.c)
       /\ recv_buf' = r.buf
       /\ gen' = IF r.done THEN None
                 ELSE Some(Generator(TRUE, g.data, r.items))
       /\ ret' = [ret EXCEPT !.events = IF r.event = None THEN @
                                        ELSE Append(@, r.event[1])]
    /\ UNCHANGED host

NextLazy == recv_call \/ next_event

SpecLazy == Init /\ [][NextLazy]_vars

(***************************************************************************)
(* The properties.  Each is stated about the latest call, ret: the client   *)
(* it started from (ret.pre), what it was given and what it returned, and   *)
(* the client as the call left it.                                          *)
(***************************************************************************)
\* the message of the frame the latest recv was fed
Fed == ParseOne(ret.buf).items[1].msg

FedResponse == ret.op = "recv" /\ Fed.type = "response"

FedEvent == ret.op = "recv" /\ Fed.type = "event"

\* the latest call was a recv of a response whose request_seq is the seq of
\* an unanswered request with this command
Answers(command) ==
    /\ FedResponse
    /\ Fed.request_seq \in DOMAIN ret.pre.unanswered
    /\ ret.pre.unanswered[Fed.request_seq].command = command

\* the seqs the latest call added to the pending-request table
Enqueued == (DOMAIN unanswered) \ (DOMAIN ret.pre.unanswered)

\* the operations that assert the state
GuardedOps ==
    {"launch", "attach", "set_breakpoints", "set_function_breakpoints",
     "set_exception_breakpoints", "configuration_done",
     "continue_execution", "next", "step_in", "step_out", "pause",
     "stack_trace", "scopes", "variables", "set_variable", "source",
     "threads", "evaluate", "disconnect"}

InitializeSucceeds ==
    /\ Answers("initialize")
    /\ Fed.success
    /\ ret.pre.state = WAITING_FOR_INITIALIZED

\* C1: a successful response to the pending initialize request, received in
\* WAITING_FOR_INITIALIZED, makes recv yield exactly one event, the
\* synthetic initialized event, and the state becomes NORMAL.
C1_InitializeSuccess ==
    InitializeSucceeds =>
        /\ Len(ret.events) = 1
        /\ ret.events[1].cls = "InitializedEvent"
        /\ ret.events[1].event = "initialized"
        /\ state = NORMAL

C1_Witness == InitializeSucceeds /\ Len(ret.events) = 1

\* C2: every request whose command is neither initialize nor cancel is
\* enqueued by a call that started in NORMAL, with the initialize request
\* answered and no disconnect request pending.
C2_HandshakeEnforced ==
    \A s \in Enqueued :
        unanswered[s].command \notin {"initialize", "cancel"} =>
            /\ ret.pre.state = NORMAL
            /\ \A q \in DOMAIN ret.pre.unanswered :
                  ret.pre.unanswered[q].command
                      \notin {"initialize", "disconnect"}

C2_Witness ==
    /\ ret.op = "evaluate"
    /\ \E s \in Enqueued : unanswered[s].command = "evaluate"

\* C3: a request-issuing operation other than cancel, called in a state
\* other than NORMAL, fails and leaves the seq counter, the outbound buffer,
\* the pending-request table and the state as they were.
C3_InvalidStateFails ==
    (ret.op \in GuardedOps /\ ret.pre.state # NORMAL) =>
        /\ ret.raised
        /\ seq_counter = ret.pre.seq_counter
        /\ send_buf = ret.pre.send_buf
        /\ unanswered = ret.pre.unanswered
        /\ state = ret.pre.state

C3_Witness ==
    /\ ret.op = "disconnect"
    /\ ret.pre.state = WAITING_FOR_SHUTDOWN
    /\ ret.raised

\* C4: the n-th request issued, the initialize request being the first,
\* carries the seq of the initialize request plus n - 1: request seqs are
\* consecutive.
C4_ConsecutiveRequestSeqs ==
    \A s \in Enqueued : s = InitialSeq + ret.pre.req_count

DisconnectSucceeds ==
    /\ Answers("disconnect")
    /\ Fed.success
    /\ ret.pre.state = WAITING_FOR_SHUTDOWN

\* C5: a successful response to the pending disconnect request, received in
\* WAITING_FOR_SHUTDOWN, makes recv yield exactly one event, the synthetic
\* terminated event, and the state becomes SHUTDOWN.
C5_DisconnectSuccess ==
    DisconnectSucceeds =>
        /\ Len(ret.events) = 1
        /\ ret.events[1].cls = "TerminatedEvent"
        /\ ret.events[1].event = "terminated"
        /\ state = SHUTDOWN

C5_Witness == DisconnectSucceeds /\ Len(ret.events) = 1

\* C6: from WAITING_FOR_SHUTDOWN, a response that answers the disconnect
\* request moves the client to SHUTDOWN whatever its success flag.
C6_AnyDisconnectAnswer ==
    (Answers("disconnect") /\ ret.pre.state = WAITING_FOR_SHUTDOWN) =>
        state = SHUTDOWN

\* C7: a response with success = false to the initialize request, received
\* in WAITING_FOR_INITIALIZED, moves the client to EXITED and an error event
\* is yielded.
C7_InitializeFailure ==
    (/\ Answers("initialize")
     /\ ~Fed.success
     /\ ret.pre.state = WAITING_FOR_INITIALIZED) =>
        /\ state = EXITED
        /\ Len(ret.events) = 1
        /\ ret.events[1].cls = "ErrorResponse"

\* the event recv yielded is the event it was fed
PassedThrough ==
    /\ Len(ret.events) = 1
    /\ ret.events[1].type = "event"
    /\ ret.events[1].event = Fed.event
    /\ ret.events[1].seq = Fed.seq
    /\ ret.events[1].body = Fed.body

C9_Constructed ==
    ret.op = "__init__" =>
        LET parsed == ParseOne(send_buf) IN
        /\ state = WAITING_FOR_INITIALIZED
        /\ parsed.status = "ok"
        /\ parsed.rest = <<>>
        /\ Len(parsed.items) = 1
        /\ parsed.items[1].msg.type = "request"
        /\ parsed.items[1].msg.command = "initialize"
        /\ DOMAIN unanswered = {parsed.items[1].msg.seq}
        /\ unanswered[parsed.items[1].msg.seq].command = "initialize"

C9_Witness == ret.op = "__init__" /\ send_buf # <<>>

\* C10: the first outbound message, the initialize request enqueued during
\* construction, carries seq = 1.
C10_FirstSeqIsOne ==
    ret.op = "__init__" => ParseOne(send_buf).items[1].msg.seq = 1

\* the messages of the frames a buffer holds, in order
RECURSIVE Decoded(_)
Decoded(buf) ==
    LET parsed == ParseOne(buf) IN
    IF parsed.status # "ok" THEN <<>>
    ELSE [i \in 1..Len(parsed.items) |-> parsed.items[i].msg]
             \o Decoded(parsed.rest)

\* the messages the latest call appended to the outbound buffer
Appended ==
    IF ret.op = "send" THEN <<>>
    ELSE Decoded(SubSeq(send_buf, Len(ret.pre.send_buf) + 1, Len(send_buf)))

\* C11: the seqs of the messages the client enqueues are strictly
\* increasing in enqueue order and no seq is used twice: the messages in the
\* outbound buffer carry increasing seqs below the counter, and every
\* message a call appends carries a seq at or above the counter the call
\* started with, so above the seq of every message enqueued before it.
C11_SeqStrictlyIncreasing ==
    LET out == Decoded(send_buf) IN
    /\ \A i \in 1..Len(out) - 1 : out[i].seq < out[i + 1].seq
    /\ \A i \in 1..Len(out) : out[i].seq < seq_counter
    /\ \A i \in 1..Len(Appended) : Appended[i].seq >= ret.pre.seq_counter
    /\ ret.pre.seq_counter <= seq_counter
    /\ ret.op # "send" =>
          SubSeq(send_buf, 1, Len(ret.pre.send_buf)) = ret.pre.send_buf

C11_Witness ==
    /\ ret.op = "launch"
    /\ ~ret.raised
    /\ Len(Decoded(send_buf)) = 3
    /\ Decoded(send_buf)[2].type = "event"

\* the operations that enqueue a request
RequestOps == GuardedOps \cup {"cancel"}

Removed == (DOMAIN ret.pre.unanswered) \ (DOMAIN unanswered)

\* C13: the pending-request table gains the entry of seq s exactly when a
\* request with seq s is enqueued, loses it on the first response whose
\* request_seq is s, whether success is true or false, and is changed by
\* nothing else.
C13_PendingTable ==
    /\ Enqueued = {Appended[i].seq : i \in
                      {j \in 1..Len(Appended) : Appended[j].type = "request"}}
    /\ \A s \in Enqueued : unanswered[s].seq = s
    /\ Removed = IF FedResponse
                 THEN {Fed.request_seq} \cap DOMAIN ret.pre.unanswered
                 ELSE {}
    /\ \A s \in (DOMAIN unanswered) \cap (DOMAIN ret.pre.unanswered) :
          unanswered[s] = ret.pre.unanswered[s]

C13_Witness ==
    /\ Answers("launch")
    /\ ~Fed.success
    /\ Fed.request_seq \notin DOMAIN unanswered

\* the request a response answers, when there is one
Pending == Fed.request_seq \in DOMAIN ret.pre.unanswered

\* C14: a successful response that answers neither the pending initialize
\* nor the pending disconnect request makes recv yield exactly one generic
\* response event with request_seq, success, message and body of the
\* response and the command of the request it answers, or the response's
\* own command when it answers none; in that case the pending-request table
\* and the state stay as they were.
C14_GenericResponse ==
    (/\ FedResponse
     /\ Fed.success
     /\ ~Answers("initialize")
     /\ ~Answers("disconnect")) =>
        /\ Len(ret.events) = 1
        /\ ret.events[1].cls = "Event"
        /\ ret.events[1].event = "response"
        /\ ret.events[1].body =
              Some([command |-> IF Pending
                                THEN ret.pre.unanswered[Fed.request_seq].command
                                ELSE Fed.command,
                    request_seq |-> Fed.request_seq,
                    success |-> Fed.success,
                    message |-> Fed.message,
                    body |-> Fed.body])
        /\ ~Pending => /\ unanswered = ret.pre.unanswered
                       /\ state = ret.pre.state

C14_Witness ==
    /\ Answers("launch")
    /\ Fed.success
    /\ Fed.command = "evaluate"
    /\ ret.events[1].body[1].command = "launch"

\* the event _handle_response returns for the response recv was fed when
\* the response answers an unanswered request of the command it names
MatchedEvent ==
    HandleResponse(
        [ret.pre EXCEPT !.unanswered =
            Put(@, Fed.request_seq,
                Request(Fed.request_seq, Fed.command, None))],
        Fed).event

\* C15: a response whose request_seq matches no pending entry is flagged:
\* the event recv yields for it differs from the event of the same response
\* matched to a pending request.
C15_UnsolicitedFlagged ==
    (/\ FedResponse
     /\ ~Pending
     /\ Fed.command \notin {"initialize", "disconnect"}) =>
        /\ Len(ret.events) = 1
        /\ ret.events[1] # MatchedEvent

\* C16: a response with success false that answers a pending request makes
\* recv yield exactly one error-response event with the command of the
\* pending request, even when the response names another command, and with
\* request_seq, message and body of the response; the entry is removed.
C16_ErrorCarriesRequestCommand ==
    (FedResponse /\ ~Fed.success /\ Pending) =>
        /\ Len(ret.events) = 1
        /\ ret.events[1].cls = "ErrorResponse"
        /\ ret.events[1].command = ret.pre.unanswered[Fed.request_seq].command
        /\ ret.events[1].request_seq = Fed.request_seq
        /\ ret.events[1].message = Fed.message
        /\ ret.events[1].body = Fed.body
        /\ Fed.request_seq \notin DOMAIN unanswered

\* the request with this seq is pending and so is a cancel request for it
Cancelled(s) ==
    /\ s \in DOMAIN ret.pre.unanswered
    /\ \E q \in DOMAIN ret.pre.unanswered :
          /\ ret.pre.unanswered[q].command = "cancel"
          /\ ret.pre.unanswered[q].arguments = Some([requestId |-> s])

\* C17: cancel enqueues a cancel request under a fresh seq and removes no
\* entry from the pending-request table, the entry it names included; a
\* response to a request for which a cancel request is pending is
\* correlated with that request and delivered as any other response is.
C17_CancelKeepsPending ==
    /\ ret.op = "cancel" =>
          /\ ret.pre.seq_counter \notin DOMAIN ret.pre.unanswered
          /\ Enqueued = {ret.pre.seq_counter}
          /\ unanswered[ret.pre.seq_counter].command = "cancel"
          /\ \A s \in DOMAIN ret.pre.unanswered :
                /\ s \in DOMAIN unanswered
                /\ unanswered[s] = ret.pre.unanswered[s]
    /\ (FedResponse /\ Cancelled(Fed.request_seq)) =>
          LET request == ret.pre.unanswered[Fed.request_seq] IN
          /\ Fed.request_seq \notin DOMAIN unanswered
          /\ Len(ret.events) = 1
          /\ ~Fed.success =>
                /\ ret.events[1].cls = "ErrorResponse"
                /\ ret.events[1].request_seq = Fed.request_seq
          /\ (Fed.success /\ request.command = "initialize") =>
                ret.events[1].cls = "InitializedEvent"
          /\ (Fed.success /\ request.command = "disconnect") =>
                ret.events[1].cls = "TerminatedEvent"
          /\ (Fed.success
                /\ request.command \notin {"initialize", "disconnect"}) =>
                /\ ret.events[1].event = "response"
                /\ ret.events[1].body[1].command = request.command
                /\ ret.events[1].body[1].request_seq = Fed.request_seq
                /\ ret.events[1].body[1].body = Fed.body

C17_Witness ==
    /\ FedResponse
    /\ Cancelled(Fed.request_seq)
    /\ ret.pre.unanswered[Fed.request_seq].command = "launch"
    /\ Fed.success
    /\ ret.events[1].body[1].command = "launch"

\* C18: once the state is SHUTDOWN no public operation, cancel included,
\* appends to the outbound buffer, consumes a seq or adds an entry to the
\* pending-request table.
C18_ShutdownTerminal ==
    ret.pre.state = SHUTDOWN =>
        /\ send_buf \in {ret.pre.send_buf, <<>>}
        /\ seq_counter = ret.pre.seq_counter
        /\ Enqueued = {}

\* C19: handling the successful initialize response stores the body of the
\* response as the adapter's capabilities: the client the call leaves holds
\* the body, so the same response with another body leaves another client.
C19_CapabilitiesStored ==
    InitializeSucceeds =>
        \A body \in {None, Some("body")} \ {Fed.body} :
            RecvLoop(ret.pre, Frame([Fed EXCEPT !.body = body]), <<>>).c
                # Cur

\* C20: an event from the adapter, received in any state, is yielded as it
\* came, with its name, seq and body, and leaves the pending-request table,
\* the seq counter and the outbound buffer as they were.
C20_EventsUntouched ==
    FedEvent =>
        /\ PassedThrough
        /\ unanswered = ret.pre.unanswered
        /\ seq_counter = ret.pre.seq_counter
        /\ send_buf = ret.pre.send_buf

C20_Witness ==
    /\ FedEvent
    /\ Fed.event = "stopped"
    /\ Fed.body # None
    /\ ret.events[1].body = Fed.body
    /\ DOMAIN unanswered # {}
    /\ send_buf # <<>>

FedRequest == ret.op = "recv" /\ Fed.type = "request"

\* C21: a request from the adapter is passed through to the host: the
\* event recv yields for it carries its command and arguments, so the event
\* differs from the event of a request with another command.
C21_RequestPassedThrough ==
    FedRequest =>
        /\ Len(ret.events) = 1
        /\ ret.events[1] #
              HandleRequest(ret.pre,
                  Request(Fed.seq, "startDebugging", Fed.arguments)).event

\* C22: send returns every byte enqueued since the previous send and
\* leaves the outbound buffer empty, so a send that follows a send returns
\* nothing; no other call takes bytes out of the outbound buffer, so what
\* is enqueued after a send is returned by the next send.
C22_SendDrains ==
    /\ ret.op = "send" =>
          /\ ~ret.raised
          /\ ret.bytes = ret.pre.send_buf
          /\ send_buf = <<>>
    /\ ret.op # "send" =>
          /\ Len(send_buf) >= Len(ret.pre.send_buf)
          /\ SubSeq(send_buf, 1, Len(ret.pre.send_buf)) = ret.pre.send_buf

C22_Witness ==
    /\ ret.op = "send"
    /\ ret.bytes # <<>>
    /\ send_buf = <<>>
    /\ ret.pre.state = NORMAL

\* the frames of the messages the latest call produced: the request of a
\* request-issuing operation, the initialized event of a recv
ProducedFrames ==
    IF ret.op \in RequestOps \cup {"__init__"} /\ ~ret.raised
    THEN LET request == unanswered[ret.pre.seq_counter] IN
         <<MakeRequest(request.command, request.arguments,
                       ret.pre.seq_counter)>>
    ELSE IF ret.op = "recv" /\ InitializeSucceeds
    THEN <<MakeEvent("initialized", None, ret.pre.seq_counter)>>
    ELSE <<>>

\* C23: whatever the interleaving of request-issuing operations, recv and
\* send, what send has returned so far followed by the outbound buffer is
\* the frames of all messages produced, each once and in seq order: send
\* returns the whole buffer and empties it, and every other call appends
\* to the buffer the frames of the messages it produced, stamped with the
\* seqs from the counter it started with, and nothing else.
C23_SendConcatenation ==
    /\ ret.op = "send" =>
          /\ ret.bytes = ret.pre.send_buf
          /\ send_buf = <<>>
          /\ seq_counter = ret.pre.seq_counter
    /\ ret.op # "send" =>
          /\ seq_counter = ret.pre.seq_counter + Len(ProducedFrames)
          /\ send_buf = IF ProducedFrames = <<>> THEN ret.pre.send_buf
                        ELSE ret.pre.send_buf \o ProducedFrames[1]

C23_Witness ==
    /\ ret.op = "send"
    /\ Len(Decoded(ret.bytes)) = 3
    /\ Decoded(ret.bytes)[2].type = "event"
    /\ Decoded(ret.bytes)[3].seq = InitialSeq + 2

(***************************************************************************)
(* The properties of recv as a decoder of the adapter's byte stream,       *)
(* SpecCodec.  ret.buf is the inbound buffer followed by the bytes recv    *)
(* was given: a recv on an empty buffer that was given ret.buf does what   *)
(* the latest recv did.                                                    *)
(***************************************************************************)
\* whether the except branch of recv ran, and how many messages were
\* handled before it did
RECURSIVE RecvOutcome(_, _, _)
RecvOutcome(c, buf, handled) ==
    LET parsed == ParseOne(buf) IN
    IF parsed.status = "none" THEN [failed |-> FALSE, handled |-> handled]
    ELSE IF parsed.status = "raise"
    THEN [failed |-> TRUE, handled |-> handled]
    ELSE LET h == HandleItems(c, parsed.items, <<>>) IN
         IF h.raised
         THEN [failed |-> TRUE, handled |-> handled + Len(h.events)]
         ELSE RecvOutcome(h.c, parsed.rest, handled + Len(h.events))

RecvFailed == ret.op = "recv" /\ RecvOutcome(ret.pre, ret.buf, 0).failed

\* recv(a) followed by recv(b), each iterated to its end
TwoHalves(c, a, b) ==
    LET first == RecvLoop(c, a, <<>>) IN
    RecvLoop(first.c, first.buf \o b, first.events)

\* cut anywhere, the bytes the latest recv parsed yield the events it
\* yielded and leave the client and the inbound buffer as it left them
SplitAnywhere ==
    \A i \in 0..Len(ret.buf) :
        LET halves == TwoHalves(ret.pre, SubSeq(ret.buf, 1, i),
                                SubSeq(ret.buf, i + 1, Len(ret.buf)))
        IN  /\ halves.events = ret.events
            /\ halves.c = Cur
            /\ halves.buf = recv_buf

\* C24 as stated: for any inbound bytes and any split point, two recv calls
\* on the two halves yield the events, and leave the client in the state,
\* of one recv call on the whole.
C24_SplitAnyBytes == ret.op = "recv" => SplitAnywhere

\* C24, amended: for any inbound bytes that recv decodes without a failure
\* and any split point, two recv calls on the two halves yield the events,
\* and leave the client in the state, of one recv call on the whole.
C24_SplitDecodable == (ret.op = "recv" /\ ~RecvFailed) => SplitAnywhere

C24_Witness ==
    /\ ret.op = "recv"
    /\ ret.buf = Wire(<<"response", "batch", "event">>)
    /\ ret.pre.state = WAITING_FOR_INITIALIZED
    /\ Len(ret.events) = 4
    /\ state = NORMAL

\* the buffer holds no complete header block, or a header block whose
\* Content-Length exceeds the body bytes after it
Partial(buf) ==
    LET t == FirstTerm(buf, 1) IN
    \/ t = 0
    \/ /\ t = 2
       /\ buf[1].k = "line"
       /\ buf[1].name = "Content-Length"
       /\ IsNumeral(buf[1].value)
       /\ Int_(buf[1].value) > Len(buf) - t

\* C25: when the inbound buffer, with the bytes recv was given, holds no
\* complete header block or a complete one whose Content-Length exceeds
\* the body bytes received, recv yields no event and the inbound buffer is
\* what it was with the new bytes appended; the client is unchanged.
C25_PartialFrameWaits ==
    (ret.op = "recv" /\ Partial(ret.buf)) =>
        /\ ~ret.raised
        /\ ret.events = <<>>
        /\ recv_buf = ret.buf
        /\ Cur = ret.pre

C25_Witness ==
    /\ ret.op = "recv"
    /\ ret.buf = MakeHeaders(BodyLen)
    /\ recv_buf = ret.buf
    /\ ret.events = <<>>

\* the messages a run of well-formed frames carries, in stream order
RECURSIVE Messages(_)
Messages(kinds) ==
    IF kinds = <<>> THEN <<>>
    ELSE Carried(Head(kinds)) \o Messages(Tail(kinds))

\* the client after it handled the messages one by one, and the event of
\* each
RECURSIVE EventsOf(_, _, _)
EventsOf(c, messages, events) ==
    IF messages = <<>> THEN [c |-> c, events |-> events]
    ELSE LET h == HandleMessage(c, Head(messages)) IN
         EventsOf(h.c, Tail(messages), Append(events, h.event))

\* the frames of a stream before its undecodable frame
Before(kinds) ==
    LET bad == CHOOSE i \in DOMAIN kinds : kinds[i] \in Undecodable IN
    SubSeq(kinds, 1, bad - 1)

\* C26: fed the frames of a sequence M of well-formed messages, recv yields
\* the events of M, one per message and in the order of the frames in the
\* stream; the messages of a frame whose body is a JSON array come in array
\* order at the place of that frame.
C26_StreamOrderKept ==
    \A w \in Wires :
        (/\ ret.op = "recv"
         /\ ret.buf = w.bytes
         /\ \A i \in DOMAIN w.kinds : w.kinds[i] \in WellFormed) =>
            LET M == Messages(w.kinds) IN
            /\ Len(ret.events) = Len(M)
            /\ \A i \in 1..Len(M) : ret.events[i].seq = M[i].seq
            /\ ret.events = EventsOf(ret.pre, M, <<>>).events

C26_Witness ==
    /\ ret.op = "recv"
    /\ ret.buf = Wire(<<"event", "batch", "response">>)
    /\ Len(ret.events) = 4
    /\ ret.events[2].event = "output"
    /\ ret.events[3].event = "exited"
    /\ ret.events[4].cls = "InitializedEvent"

\* C27: a frame that is the header Content-Length: 0, the blank line and no
\* body byte makes recv yield exactly one message.
C27_EmptyBodyMessage ==
    (ret.op = "recv" /\ ret.buf = MakeHeaders(0)) => Len(ret.events) = 1

\* C27, amended: a frame that is the header Content-Length: 0, the blank
\* line and no body byte yields no message: the empty body is no JSON text,
\* recv fails on it, yields no event, clears the inbound buffer and leaves
\* the client as it was.
C27_EmptyBodyFails ==
    (ret.op = "recv" /\ ret.buf = MakeHeaders(0)) =>
        /\ RecvFailed
        /\ ret.events = <<>>
        /\ recv_buf = <<>>
        /\ Cur = ret.pre

C27_Witness ==
    /\ ret.op = "recv"
    /\ ret.buf = MakeHeaders(0)
    /\ ret.events = <<>>
    /\ recv_buf = <<>>

\* C28: a failure of recv in the frame or in its decoding is never silent:
\* recv raises to its caller or yields an event for the failure, one more
\* than the messages it handled, so that a failed recv differs from one
\* that waits for more bytes.
C28_FailureSurfaced ==
    RecvFailed =>
        \/ ret.raised
        \/ Len(ret.events) > RecvOutcome(ret.pre, ret.buf, 0).handled

\* C29: after a failure of recv the inbound buffer is empty, the client is
\* as the last message handled before the failure left it, and a following
\* recv of a well-formed frame yields the event of its message.
C29_CleanAfterFailure ==
    \A w \in Wires :
        (/\ ret.op = "recv"
         /\ ret.buf = w.bytes
         /\ \E i \in DOMAIN w.kinds : w.kinds[i] \in Undecodable) =>
            /\ recv_buf = <<>>
            /\ Cur = EventsOf(ret.pre, Messages(Before(w.kinds)), <<>>).c
            /\ \A kind \in {"event", "response"} :
                  LET following == RecvLoop(Cur, recv_buf \o Wrap(kind), <<>>)
                  IN  /\ following.buf = <<>>
                      /\ following.events =
                            <<HandleMessage(Cur, Carried(kind)[1]).event>>

C29_Witness ==
    /\ ret.op = "recv"
    /\ ret.buf = Wire(<<"response", "no_length">>)
    /\ recv_buf = <<>>
    /\ state = NORMAL
    /\ Len(ret.events) = 1

\* C30: when a chunk holds frames, then an undecodable frame, then further
\* frames, recv yields the events of the frames before the undecodable one
\* and they take effect; the frames after it yield no event and change
\* nothing, so the answer to the initialize request among them leaves the
\* request pending.
C30_LaterFramesDiscarded ==
    \A w \in Wires :
        (/\ ret.op = "recv"
         /\ ret.buf = w.bytes
         /\ \E i \in 1..(Len(w.kinds) - 1) : w.kinds[i] \in Undecodable) =>
            LET before == Messages(Before(w.kinds))
                handled == EventsOf(ret.pre, before, <<>>)
            IN  /\ ret.events = handled.events
                /\ Len(ret.events) = Len(before)
                /\ state = handled.c.state
                /\ unanswered = handled.c.unanswered
                /\ seq_counter = handled.c.seq_counter
                /\ recv_buf = <<>>
                /\ (/\ InitialSeq \in DOMAIN ret.pre.unanswered
                    /\ \A i \in DOMAIN Before(w.kinds) :
                          w.kinds[i] # "response") =>
                      /\ InitialSeq \in DOMAIN unanswered
                      /\ state = WAITING_FOR_INITIALIZED

C30_Witness ==
    /\ ret.op = "recv"
    /\ ret.buf = Wire(<<"event", "bad_json", "response">>)
    /\ Len(ret.events) = 1
    /\ ret.events[1].event = "stopped"
    /\ InitialSeq \in DOMAIN unanswered
    /\ state = WAITING_FOR_INITIALIZED

\* C33: disconnect called in NORMAL enqueues exactly one disconnect request
\* under a fresh seq, records it as pending and moves the client to
\* WAITING_FOR_SHUTDOWN; from then on the state is WAITING_FOR_SHUTDOWN or
\* SHUTDOWN, where every request-issuing operation other than cancel
\* raises.
C33_DisconnectClosesSession ==
    /\ (ret.op = "disconnect" /\ ~ret.raised) =>
          /\ ret.pre.state = NORMAL
          /\ state = WAITING_FOR_SHUTDOWN
          /\ ret.pre.seq_counter \notin DOMAIN ret.pre.unanswered
          /\ Enqueued = {ret.pre.seq_counter}
          /\ unanswered[ret.pre.seq_counter] =
                Request(ret.pre.seq_counter, "disconnect", None)
          /\ send_buf = ret.pre.send_buf
                \o MakeRequest("disconnect", None, ret.pre.seq_counter)
    /\ (ret.op = "disconnect" /\ ret.pre.state = NORMAL) => ~ret.raised
    /\ ret.pre.state \in {WAITING_FOR_SHUTDOWN, SHUTDOWN} =>
          /\ state \in {WAITING_FOR_SHUTDOWN, SHUTDOWN}
          /\ ret.op \in GuardedOps =>
                /\ ret.raised
                /\ Enqueued = {}
                /\ send_buf = ret.pre.send_buf

\* a request-issuing operation was refused after disconnect had been called
C33_Witness ==
    /\ ret.op \in GuardedOps \ {"disconnect"}
    /\ ret.raised
    /\ ret.pre.state = WAITING_FOR_SHUTDOWN
    /\ \E s \in DOMAIN unanswered : unanswered[s].command = "disconnect"

\* C35: the two state assertions of response handling never fail: while the
\* initialize request is pending the state is WAITING_FOR_INITIALIZED,
\* while a disconnect request is pending the state is WAITING_FOR_SHUTDOWN,
\* and no recv of the adapter's frames ends in a failure.
C35_AssertionsHold ==
    /\ \A s \in DOMAIN unanswered :
          /\ unanswered[s].command = "initialize" =>
                state = WAITING_FOR_INITIALIZED
          /\ unanswered[s].command = "disconnect" =>
                state = WAITING_FOR_SHUTDOWN
    /\ ~RecvFailed

\* both assertions were evaluated: the disconnect response was handled in a
\* session whose initialize response had been handled
C35_Witness ==
    /\ DisconnectSucceeds
    /\ state = SHUTDOWN
    /\ \A s \in DOMAIN unanswered : unanswered[s].command # "initialize"

\* the place of a state on the path of a session
Rank(s) ==
    CASE s = NOT_INITIALIZED -> 0
      [] s = WAITING_FOR_INITIALIZED -> 1
      [] s = NORMAL -> 2
      [] s = WAITING_FOR_SHUTDOWN -> 3
      [] s = SHUTDOWN -> 4
      [] s = EXITED -> 5

\* C36: every call leaves the state where it was or moves it one step along
\* WAITING_FOR_INITIALIZED, NORMAL, WAITING_FOR_SHUTDOWN, SHUTDOWN; the
\* state EXITED is never reached.
C36_StateAdvances ==
    /\ state \in {WAITING_FOR_INITIALIZED, NORMAL, WAITING_FOR_SHUTDOWN,
                  SHUTDOWN}
    /\ Rank(state) \in {Rank(ret.pre.state), Rank(ret.pre.state) + 1}
    /\ ret.op \notin {"__init__", "recv", "disconnect"} =>
          state = ret.pre.state

\* the adapter's exited event was received in the last state of the path
C36_Witness ==
    /\ FedEvent
    /\ Fed.event = "exited"
    /\ ret.pre.state = SHUTDOWN
    /\ state = SHUTDOWN

C39_PendingKeys ==
    /\ \A s \in DOMAIN unanswered :
          /\ s < seq_counter
          /\ unanswered[s].type = "request"
          /\ unanswered[s].seq = s
    /\ Enqueued \subseteq {ret.pre.seq_counter}
    /\ FedResponse => Fed.request_seq \notin DOMAIN unanswered
    /\ InitializeSucceeds => ret.pre.seq_counter \notin DOMAIN unanswered

\* the initialized event took a seq while a cancel request was pending
C39_Witness ==
    /\ InitializeSucceeds
    /\ ret.pre.seq_counter = InitialSeq + 2
    /\ InitialSeq + 1 \in DOMAIN unanswered

\* the latest call was a recv that was fed the response to the unanswered
\* request s, took it off the pending-request table and yielded its event
Yielded(s) ==
    /\ ret.op = "recv"
    /\ ParseOne(ret.buf).status = "ok"
    /\ FedResponse
    /\ Fed.request_seq = s
    /\ s \in DOMAIN ret.pre.unanswered
    /\ s \notin DOMAIN unanswered
    /\ Len(ret.events) = 1

Terminal == state \in {SHUTDOWN, EXITED}

\* the latest call was a recv that failed on an undecodable frame and
\* dropped, with the rest of the inbound buffer, the response to the
\* unanswered request s
Discarded(s) ==
    /\ RecvFailed
    /\ ret.events = <<>>
    /\ s \in DOMAIN unanswered
    /\ \E i \in 1..Len(ret.buf) :
          LET later == ParseOne(SubSeq(ret.buf, i, Len(ret.buf))) IN
          /\ later.status = "ok"
          /\ later.items[1].msg.type = "response"
          /\ later.items[1].msg.request_seq = s

Unsolicited ==
    /\ ret.op = "recv"
    /\ ParseOne(ret.buf).status = "ok"
    /\ FedResponse
    /\ ~Pending

\* C38: recv yields the synthetic initialized event only for the answer that
\* takes the initialize request off the table and moves the state from
\* WAITING_FOR_INITIALIZED to NORMAL, and the synthetic terminated event only
\* for the answer that takes the disconnect request off the table and moves
\* the state from WAITING_FOR_SHUTDOWN to SHUTDOWN; neither request is on
\* the table afterwards, so each event is yielded at most once.  A repeated
\* answer is handled as an unsolicited response: one generic or error event,
\* no state transition, nothing enqueued.
C38_SyntheticEventsOnce ==
    /\ \A i \in 1..Len(ret.events) :
          /\ ret.events[i].cls = "InitializedEvent" =>
                /\ InitializeSucceeds
                /\ state = NORMAL
                /\ Len(ret.events) = 1
          /\ ret.events[i].cls = "TerminatedEvent" =>
                /\ DisconnectSucceeds
                /\ state = SHUTDOWN
                /\ Len(ret.events) = 1
    /\ \A s \in DOMAIN unanswered :
          /\ unanswered[s].command = "initialize" =>
                /\ s = InitialSeq
                /\ state = WAITING_FOR_INITIALIZED
          /\ unanswered[s].command = "disconnect" =>
                state = WAITING_FOR_SHUTDOWN
    /\ Unsolicited =>
          /\ Len(ret.events) = 1
          /\ ret.events[1].cls \in {"Event", "ErrorResponse"}
          /\ state = ret.pre.state
          /\ unanswered = ret.pre.unanswered
          /\ send_buf = ret.pre.send_buf
          /\ seq_counter = ret.pre.seq_counter

\* the adapter repeated its successful answer to disconnect
C38_Witness ==
    /\ Unsolicited
    /\ Fed.success
    /\ Fed.command = "disconnect"
    /\ Fed.request_seq = InitialSeq + 2
    /\ ret.pre.state = SHUTDOWN

\* how many requests with this command the host has written to the adapter
Sent(command) ==
    Cardinality({ i \in 1..Len(host.written) :
                    /\ host.written[i].k = "body"
                    /\ host.written[i].i = 1
                    /\ host.written[i].text.v.type = "request"
                    /\ host.written[i].text.v.command = command })

\* C34: in the sandbox host, launch and configurationDone are each sent at
\* most once in a session, and only once the session was marked as started,
\* however many initialized events, synthetic or from the adapter, reach
\* handle_dap_event.
C34_LaunchedOnce ==
    /\ Sent("launch") <= 1
    /\ Sent("configurationDone") <= 1
    /\ Sent("launch") = 1 => host.session_started
    /\ Sent("configurationDone") = 1 => host.session_started

\* the adapter's own initialized event reached handle_dap_event after the
\* synthetic one had started the session, and nothing was sent for it
C34_Witness ==
    /\ ret.op = "handle_dap_event"
    /\ ret.events = <<PassedEvent(Event(7, "initialized", None))>>
    /\ ret.pre = Cur
    /\ host.session_started
    /\ Sent("launch") = 1
    /\ Sent("configurationDone") = 1

\* the message in the body of the frame the latest recv was fed
Body == ret.buf[Len(ret.buf)].text.v

\* C32: whatever the letter case of the name Content-Length and whatever
\* headers accompany it, a Content-Type of application/vscode-jsonrpc or an
\* unknown header, the frame is decoded to the message of its body: recv
\* yields the one event of that message, as it does for the frame with the
\* single header Content-Length, and leaves nothing in the inbound buffer.
C32_HeadersTolerated ==
    ret.op = "recv" =>
        LET handled == HandleMessage(ret.pre, Body)
            plain == RecvLoop(ret.pre, Frame(Body), <<>>)
        IN
        /\ ~RecvFailed
        /\ ret.events = <<handled.event>>
        /\ Cur = handled.c
        /\ recv_buf = <<>>
        /\ plain.events = ret.events
        /\ plain.c = Cur

\* a frame with an unknown header in front of an upper-case CONTENT-LENGTH
\* and a Content-Type behind it carried the answer to initialize
C32_Witness ==
    /\ ret.op = "recv"
    /\ ret.buf[1] = HeaderLine("X-Request-Id", "42")
    /\ ret.buf[2] = HeaderLine("CONTENT-LENGTH", Str(BodyLen))
    /\ ret.buf[3] = HeaderLine("Content-Type", DefaultContentType)
    /\ Len(ret.events) = 1
    /\ ret.events[1].cls = "InitializedEvent"
    /\ state = NORMAL

\* the latest recv call returned a generator that was not iterated yet
NeverIterated == gen # None /\ ~gen[1].started

\* the generator of the latest recv call: whatever the host has consumed of
\* it, the client is what handling the messages consumed so far makes of the
\* client the call found, and the events are theirs; before the first
\* next() the inbound buffer is without the bytes of the call; iterated to
\* its end, the call has done what the loop of recv does
LazyState ==
    ret.op = "recv" =>
        LET messages == Decoded(ret.buf)
            consumed == EventsOf(ret.pre,
                            SubSeq(messages, 1, Len(ret.events)), <<>>)
        IN
        /\ Len(ret.events) <= Len(messages)
        /\ ret.events = consumed.events
        /\ Cur = consumed.c
        /\ NeverIterated =>
              /\ ret.events = <<>>
              /\ Cur = ret.pre
              /\ ret.buf = recv_buf \o gen[1].data
        /\ gen = None =>
              RecvLoop(ret.pre, ret.buf, <<>>) =
                  [c |-> Cur, buf |-> recv_buf, events |-> ret.events]

\* a recv call that follows a recv call whose generator was never iterated
\* is given the inbound buffer without the bytes of that call
NeverIteratedDropped ==
    (NeverIterated /\ NeverIterated' /\ ret'.op = "recv") =>
        /\ recv_buf' = recv_buf
        /\ \E data \in LazyChunks :
              /\ ret.buf = recv_buf \o data
              /\ ret'.buf = recv_buf \o gen'[1].data

\* C40: recv is lazy in its side effects: the call alone appends nothing to
\* the inbound buffer and changes nothing of the client, a consumed prefix
\* of the returned sequence applies the state changes of the messages
\* consumed so far and no others, and the bytes of a call that was never
\* iterated are not in the buffer a later call parses.
C40_LazyRecv == []LazyState /\ [][NeverIteratedDropped]_vars

\* the host consumed the first event of a chunk of two frames, the synthetic
\* initialized event, and not the second: the second frame waits in the
\* inbound buffer
C40_Witness ==
    /\ ret.op = "recv"
    /\ gen # None
    /\ gen[1].started
    /\ gen[1].data = Wire(<<"response", "event">>)
    /\ Len(ret.events) = 1
    /\ ret.events[1].cls = "InitializedEvent"
    /\ state = NORMAL
    /\ recv_buf = Wrap("event")

====
